---------------------------- MODULE Spec2Model ----------------------------
(***************************************************************************)
(* Model of the perspective trainer's analysis server (src/main.go):       *)
(* handleAnalyze, analyzeStrokes and the geometric functions they call.    *)
(*                                                                         *)
(* float64 values are modelled as fractions <<n, d>> in lowest terms with  *)
(* d > 0; <<1, 0>>, <<-1, 0>> and <<0, 0>> stand for +Inf, -Inf and NaN.   *)
(* Arithmetic is exact while its result fits the 32-bit number domain, is  *)
(* rounded when the fraction does not fit, and gives +Inf or -Inf when the *)
(* value exceeds MaxFloat64, here 2^31 - 1.                                *)
(* A *Point is a sequence of length 0 (nil) or 1.  Slice indices are       *)
(* Go's, starting at 0; TLA+ sequences start at 1, so lines[i] of the      *)
(* code is lines[i + 1] here.                                              *)
(***************************************************************************)
EXTENDS Integers, Sequences, FiniteSets, TLC

VARIABLES
    req,          \* the decoded AnalysisRequest of the current call
    method,       \* r.Method of the current HTTP request
    decodeOk,     \* whether json Decode(&req) returned no error
    status,       \* HTTP status written (0: no request handled yet)
    result,       \* nil (<<>>) or <<AnalysisResult>> returned by analyzeStrokes
    coreCalls,    \* number of analyzeStrokes invocations of the current call
    lines,        \* []Line: fitted lines / argument of the function under check
    verticals,    \* clusterLines result
    leftGroup,    \* clusterLines result
    rightGroup,   \* clusterLines result
    group,        \* the group argument of calculateVanishingPoint
    pairs,        \* the index pairs visited by calculateVanishingPoint's loops
    vp,           \* <<*Point, float64>> returned by calculateVanishingPoint
    intersection, \* *Point returned by findIntersection
    message,      \* the text of the http.Error written, "" when none
    pc            \* "input": arguments chosen, "done": the call has returned

vars == <<req, method, decodeOk, status, result, coreCalls, lines, verticals,
          leftGroup, rightGroup, group, pairs, vp, intersection, message, pc>>

-----------------------------------------------------------------------------
(* float64 arithmetic *)

Sgn(n) == IF n > 0 THEN 1 ELSE IF n < 0 THEN -1 ELSE 0

IAbs(n) == IF n < 0 THEN -n ELSE n

RECURSIVE GCD(_, _)
GCD(a, b) == IF b = 0 THEN a ELSE GCD(b, a % b)

\* the float64 with value n/d
Rat(n, d) ==
    IF d = 0 THEN <<Sgn(n), 0>>
    ELSE LET g == GCD(IAbs(n), IAbs(d))
             s == Sgn(d)
         IN  <<(s * n) \div g, (s * d) \div g>>

F(n) == <<n, 1>>

\* math.MaxFloat64: the largest finite value of the number domain
MaxFloat64 == <<2147483647, 1>>

NaN == <<0, 0>>

FNeg(a) == <<-a[1], a[2]>>

FAbs(a) == <<IAbs(a[1]), a[2]>>

\* x * y and x + y lie within the number domain
MulFits(x, y) == y = 0 \/ IAbs(x) <= MaxFloat64[1] \div IAbs(y)

SumFits(x, y) == Sgn(x) # Sgn(y) \/ IAbs(x) <= MaxFloat64[1] - IAbs(y)

\* float64 rounding of a finite value, at the precision of the number domain:
\* numerator and denominator are cut down together to 15 bits, and a value too
\* large for that keeps its whole part
RoundBy(a, s) ==
    IF s = 1 THEN a
    ELSE IF a[2] \div s = 0 THEN <<a[1] \div a[2], 1>>
    ELSE Rat(a[1] \div s, a[2] \div s)

Round(a) ==
    RoundBy(a, (IF IAbs(a[1]) > a[2] THEN IAbs(a[1]) ELSE a[2]) \div 32767 + 1)

\* the sum of two rounded values
AddRounded(x, y) ==
    IF IAbs(x[1]) <= 32767 /\ IAbs(y[1]) <= 32767
    THEN Rat(x[1] * y[2] + y[1] * x[2], x[2] * y[2])
    ELSE IF SumFits(x[1] \div x[2], y[1] \div y[2])
    THEN <<x[1] \div x[2] + y[1] \div y[2], 1>>
    ELSE <<Sgn(x[1]), 0>>

\* the sum of the finite values n1/(g*d1) and n2/(g*d2), exact when the number
\* domain holds it, rounded otherwise
AddReduced(n1, n2, d1, d2, g) ==
    IF /\ MulFits(n1, d2) /\ MulFits(n2, d1) /\ MulFits(d1 * g, d2)
       /\ SumFits(n1 * d2, n2 * d1)
    THEN Rat(n1 * d2 + n2 * d1, d1 * g * d2)
    ELSE IF d1 * g = 1 /\ d2 * g = 1
    THEN <<Sgn(n1), 0>>
    ELSE AddRounded(Round(<<n1, d1 * g>>), Round(<<n2, d2 * g>>))

\* a + b; a sum beyond MaxFloat64 is +Inf or -Inf
FAdd(a, b) ==
    IF a[2] = 0 \/ b[2] = 0
    THEN IF a[2] = 0 /\ b[2] = 0 /\ a[1] # b[1] THEN NaN
         ELSE IF a[2] = 0 THEN a ELSE b
    ELSE AddReduced(a[1], b[1], a[2] \div GCD(a[2], b[2]), b[2] \div GCD(a[2], b[2]),
                    GCD(a[2], b[2]))

FSub(a, b) == FAdd(a, FNeg(b))

\* the whole part of big times the rounded value oth
MulWhole(t, oth) ==
    IF MulFits(t, oth[1]) THEN <<t * oth[1], 1>> ELSE <<Sgn(t) * Sgn(oth[1]), 0>>

\* the product of two rounded values
MulRounded(x, y) ==
    IF MulFits(x[1], y[1]) /\ MulFits(x[2], y[2])
    THEN Rat(x[1] * y[1], x[2] * y[2])
    ELSE IF x[2] = 1 /\ y[2] = 1 THEN <<Sgn(x[1]) * Sgn(y[1]), 0>>
    ELSE IF x[2] = 1 /\ IAbs(x[1]) > 32767 THEN MulWhole(x[1] \div y[2], y)
    ELSE MulWhole(y[1] \div x[2], x)

\* the product of the finite values p/d1 and q/d2, exact when the number
\* domain holds it, rounded otherwise
MulReduced(p, q, d1, d2) ==
    IF MulFits(p, q) /\ MulFits(d1, d2) THEN Rat(p * q, d1 * d2)
    ELSE IF d1 = 1 /\ d2 = 1 THEN <<Sgn(p) * Sgn(q), 0>>
    ELSE MulRounded(Round(<<p, d1>>), Round(<<q, d2>>))

\* a * b; a product beyond MaxFloat64 is +Inf or -Inf
FMul(a, b) ==
    IF a[2] = 0 \/ b[2] = 0 THEN <<Sgn(a[1]) * Sgn(b[1]), 0>>
    ELSE MulReduced(a[1] \div GCD(IAbs(a[1]), b[2]), b[1] \div GCD(IAbs(b[1]), a[2]),
                    a[2] \div GCD(IAbs(b[1]), a[2]), b[2] \div GCD(IAbs(a[1]), b[2]))

FInv(a) ==
    IF a[1] = 0 THEN (IF a[2] = 0 THEN NaN ELSE <<1, 0>>)
    ELSE IF a[2] = 0 THEN <<0, 1>>
    ELSE Rat(a[2], a[1])

FDiv(a, b) == FMul(a, FInv(b))

\* a < b and a > b as float64 compares them: both false when either is NaN
FLt(a, b) ==
    IF MulFits(a[1], b[2]) /\ MulFits(b[1], a[2])
    THEN a[1] * b[2] < b[1] * a[2]
    ELSE FSub(a, b)[1] < 0

FGt(a, b) == FLt(b, a)

RECURSIVE FSum(_)
FSum(s) == IF s = <<>> THEN F(0) ELSE FAdd(FSum(SubSeq(s, 1, Len(s) - 1)), s[Len(s)])

\* the largest r in lo..hi with r * r <= v
RECURSIVE ISqrt(_, _, _)
ISqrt(v, lo, hi) ==
    IF lo >= hi THEN lo
    ELSE LET mid == (lo + hi + 1) \div 2
         IN  IF mid * mid <= v THEN ISqrt(v, mid, hi) ELSE ISqrt(v, lo, mid - 1)

\* a with numerator and denominator cut down together until the denominator
\* is below 10^5: the value rounded to the precision the number domain holds
Shrink(a) ==
    LET s == a[2] \div 100000 + 1
    IN  <<a[1] \div s, a[2] \div s>>

\* math.Sqrt, rounded down to two decimal places (one, or none, for an argument
\* too large for the number domain); exact when the root has that many
Sqrt(a) ==
    IF a[2] = 0 THEN (IF a[1] = 1 THEN a ELSE NaN)
    ELSE IF a[1] < 0 THEN NaN
    ELSE LET r == Shrink(a)
             q == r[1] \div r[2]
             k == IF q < 200000 THEN 100 ELSE IF q < 20000000 THEN 10 ELSE 1
             v == q * k * k + ((r[1] % r[2]) * k * k) \div r[2]
         IN  Rat(ISqrt(v, 0, 46340), k)

\* e^(-f) * 10^4 for f = fF / 10^4 in [0, 1): the alternating series, term by term
RECURSIVE ExpSeries(_, _, _)
ExpSeries(fF, i, term) ==
    IF term = 0 \/ i > 12 THEN 0
    ELSE term - ExpSeries(fF, i + 1, (term * fF) \div (i * 10000))

RECURSIVE ExpPow(_, _)
ExpPow(e, k) == IF k = 0 THEN e ELSE ExpPow((e * 3679) \div 10000, k - 1)

\* e^(-y) * 10^4 rounded to an integer, for a finite y >= 0
ExpNegFixed(y) ==
    LET r  == Shrink(y)
        k  == r[1] \div r[2]
        fF == ((r[1] % r[2]) * 10000) \div r[2]
    IN  IF k >= 10 THEN 0 ELSE ExpPow(ExpSeries(fF, 1, 10000), k)

\* math.Exp, to four decimal places
Exp(x) ==
    IF x[2] = 0 THEN (IF x[1] = -1 THEN F(0) ELSE x)
    ELSE IF x[1] <= 0 THEN Rat(ExpNegFixed(FNeg(x)), 10000)
    ELSE Rat(10000, ExpNegFixed(x))

\* tan(d degrees) * 10^4 for d = 1..89
TanTable ==
    << 174, 349, 524, 699, 874, 1051, 1227, 1405, 1583, 1763,
       1943, 2125, 2308, 2493, 2679, 2867, 3057, 3249, 3443, 3639,
       3838, 4040, 4244, 4452, 4663, 4877, 5095, 5317, 5543, 5773,
       6008, 6248, 6494, 6745, 7002, 7265, 7535, 7812, 8097, 8390,
       8692, 9004, 9325, 9656, 10000, 10355, 10723, 11106, 11503, 11917,
       12348, 12799, 13270, 13763, 14281, 14825, 15398, 16003, 16642, 17320,
       18040, 18807, 19626, 20503, 21445, 22460, 23558, 24750, 26050, 27474,
       29042, 30776, 32708, 34874, 37320, 40107, 43314, 47046, 51445, 56712,
       63137, 71153, 81443, 95143, 114300, 143006, 190811, 286362, 572899 >>

RECURSIVE AtanSearch(_, _)
AtanSearch(a, d) ==
    IF d = 90 THEN 90
    ELSE IF ~FGt(a, Rat(TanTable[d], 10000)) THEN d
    ELSE AtanSearch(a, d + 1)

\* math.Atan(m) * 180.0 / math.Pi, rounded away from zero to a whole degree:
\* the rounding keeps the sign and every comparison with a whole number of degrees
AtanDegrees(m) ==
    IF m[1] = 0 THEN (IF m[2] = 0 THEN NaN ELSE F(0))
    ELSE F(Sgn(m[1]) * AtanSearch(FAbs(m), 1))

-----------------------------------------------------------------------------
(* the analysis functions *)

Nil == <<>>

Point(x, y) == [X |-> x, Y |-> y]

Line(m, b, angle, rmse, score) ==
    [M |-> m, B |-> b, Angle |-> angle, RMSE |-> rmse, Score |-> score]

\* Line{}: every field zero
ZeroLine == Line(F(0), F(0), F(0), F(0), F(0))

\* calculateScore converts RMSE to a 0-100 score
calculateScore(rmse) ==
    LET threshold == F(5)
        score     == FMul(F(100), Exp(FDiv(FNeg(rmse), threshold)))
    IN  IF FGt(score, F(100)) THEN F(100)
        ELSE IF FLt(score, F(0)) THEN F(0)
        ELSE score

\* the mean of the values vs
meanOf(vs) == FDiv(FSum(vs), F(Len(vs)))

\* the sum over the stroke's points of dx * dx, dx the deviation of X from meanX
sumDxDx(stroke, meanX) ==
    FSum([i \in 1..Len(stroke) |->
            FMul(FSub(stroke[i].X, meanX), FSub(stroke[i].X, meanX))])

\* the sum over the stroke's points of dx * dy
sumDxDy(stroke, meanX, meanY) ==
    FSum([i \in 1..Len(stroke) |->
            FMul(FSub(stroke[i].X, meanX), FSub(stroke[i].Y, meanY))])

\* the sum over the stroke's points of the squared residual of y = m*x + b
sumErrErr(stroke, m, b) ==
    FSum([i \in 1..Len(stroke) |->
            LET error == FSub(stroke[i].Y, FAdd(FMul(m, stroke[i].X), b))
            IN  FMul(error, error)])

\* calculateIdealLine, the vertical case: the line at meanX
verticalLine(meanX, rmse) ==
    Line(MaxFloat64, meanX, F(90), rmse, calculateScore(rmse))

\* calculateIdealLine, the least-squares case, from the RMSE on
obliqueLine(m, b, rmse) == Line(m, b, AtanDegrees(m), rmse, calculateScore(rmse))

\* calculateIdealLine, the least-squares case, from the intercept on
obliqueFit(stroke, m, b) ==
    obliqueLine(m, b, Sqrt(FDiv(sumErrErr(stroke, m, b), F(Len(stroke)))))

\* calculateIdealLine, the least-squares case, from the slope on
slopeFit(stroke, meanX, meanY, m) == obliqueFit(stroke, m, FSub(meanY, FMul(m, meanX)))

\* calculateIdealLine once the means are known
fitAround(stroke, meanX, meanY) ==
    IF FLt(FDiv(sumDxDx(stroke, meanX), F(Len(stroke))), F(1))
    THEN verticalLine(meanX, Sqrt(FDiv(sumDxDx(stroke, meanX), F(Len(stroke)))))
    ELSE slopeFit(stroke, meanX, meanY,
                  FDiv(sumDxDy(stroke, meanX, meanY), sumDxDx(stroke, meanX)))

\* calculateIdealLine uses linear regression to find the best-fit line
calculateIdealLine(stroke) ==
    IF Len(stroke) < 2 THEN ZeroLine
    ELSE fitAround(stroke,
                   meanOf([i \in 1..Len(stroke) |-> stroke[i].X]),
                   meanOf([i \in 1..Len(stroke) |-> stroke[i].Y]))

\* clusterLines, the loop over lines[i..]: what it appends to the three groups
RECURSIVE clusterFrom(_, _, _)
clusterFrom(ls, i, acc) ==
    IF i >= Len(ls) THEN acc
    ELSE LET line     == ls[i + 1]
             absAngle == FAbs(line.Angle)
         IN  IF FGt(absAngle, F(70)) /\ FLt(absAngle, F(110))
             THEN clusterFrom(ls, i + 1, [acc EXCEPT !.verticals = Append(@, i)])
             ELSE IF FLt(line.Angle, F(0))
             THEN clusterFrom(ls, i + 1, [acc EXCEPT !.rightGroup = Append(@, i)])
             ELSE clusterFrom(ls, i + 1, [acc EXCEPT !.leftGroup = Append(@, i)])

\* faulty variant of the loop: a line is appended to the left group only for Angle > 0
RECURSIVE clusterFromStrict(_, _, _)
clusterFromStrict(ls, i, acc) ==
    IF i >= Len(ls) THEN acc
    ELSE LET line     == ls[i + 1]
             absAngle == FAbs(line.Angle)
         IN  IF FGt(absAngle, F(70)) /\ FLt(absAngle, F(110))
             THEN clusterFromStrict(ls, i + 1, [acc EXCEPT !.verticals = Append(@, i)])
             ELSE IF FLt(line.Angle, F(0))
             THEN clusterFromStrict(ls, i + 1, [acc EXCEPT !.rightGroup = Append(@, i)])
             ELSE IF FGt(line.Angle, F(0))
             THEN clusterFromStrict(ls, i + 1, [acc EXCEPT !.leftGroup = Append(@, i)])
             ELSE clusterFromStrict(ls, i + 1, acc)

clusterLinesStrict(ls) ==
    clusterFromStrict(ls, 0, [verticals |-> <<>>, leftGroup |-> <<>>, rightGroup |-> <<>>])

\* faulty variant of the loop: the vertical band includes its lower boundary, 70
RECURSIVE clusterFromInclusive(_, _, _)
clusterFromInclusive(ls, i, acc) ==
    IF i >= Len(ls) THEN acc
    ELSE LET line     == ls[i + 1]
             absAngle == FAbs(line.Angle)
         IN  IF ~FLt(absAngle, F(70)) /\ FLt(absAngle, F(110))
             THEN clusterFromInclusive(ls, i + 1, [acc EXCEPT !.verticals = Append(@, i)])
             ELSE IF FLt(line.Angle, F(0))
             THEN clusterFromInclusive(ls, i + 1, [acc EXCEPT !.rightGroup = Append(@, i)])
             ELSE clusterFromInclusive(ls, i + 1, [acc EXCEPT !.leftGroup = Append(@, i)])

clusterLinesInclusive(ls) ==
    clusterFromInclusive(ls, 0, [verticals |-> <<>>, leftGroup |-> <<>>, rightGroup |-> <<>>])

\* clusterLines groups lines into vertical, left-converging, and right-converging
clusterLines(ls) ==
    clusterFrom(ls, 0, [verticals |-> <<>>, leftGroup |-> <<>>, rightGroup |-> <<>>])

\* faulty variant: lines count as parallel only when their slopes are equal
findIntersectionExact(line1, line2) ==
    IF line1.M = MaxFloat64 /\ line2.M = MaxFloat64 THEN Nil
    ELSE IF line1.M = MaxFloat64
    THEN <<Point(line1.B, FAdd(FMul(line2.M, line1.B), line2.B))>>
    ELSE IF line2.M = MaxFloat64
    THEN <<Point(line2.B, FAdd(FMul(line1.M, line2.B), line1.B))>>
    ELSE IF line1.M = line2.M THEN Nil
    ELSE LET x == FDiv(FSub(line2.B, line1.B), FSub(line1.M, line2.M))
         IN  <<Point(x, FAdd(FMul(line1.M, x), line1.B))>>

\* faulty variant: x = (b1 - b2) / (m1 - m2), the intercepts the wrong way round
findIntersectionSwapped(line1, line2) ==
    IF line1.M = MaxFloat64 /\ line2.M = MaxFloat64 THEN Nil
    ELSE IF line1.M = MaxFloat64
    THEN <<Point(line1.B, FAdd(FMul(line2.M, line1.B), line2.B))>>
    ELSE IF line2.M = MaxFloat64
    THEN <<Point(line2.B, FAdd(FMul(line1.M, line2.B), line1.B))>>
    ELSE IF FLt(FAbs(FSub(line1.M, line2.M)), Rat(1, 1000)) THEN Nil
    ELSE LET x == FDiv(FSub(line1.B, line2.B), FSub(line1.M, line2.M))
         IN  <<Point(x, FAdd(FMul(line1.M, x), line1.B))>>

\* findIntersection finds where two lines intersect
findIntersection(line1, line2) ==
    IF line1.M = MaxFloat64 /\ line2.M = MaxFloat64 THEN Nil
    ELSE IF line1.M = MaxFloat64
    THEN LET x == line1.B
             y == FAdd(FMul(line2.M, x), line2.B)
         IN  <<Point(x, y)>>
    ELSE IF line2.M = MaxFloat64
    THEN LET x == line2.B
             y == FAdd(FMul(line1.M, x), line1.B)
         IN  <<Point(x, y)>>
    ELSE IF FLt(FAbs(FSub(line1.M, line2.M)), Rat(1, 1000)) THEN Nil
    ELSE LET x == FDiv(FSub(line2.B, line1.B), FSub(line1.M, line2.M))
             y == FAdd(FMul(line1.M, x), line1.B)
         IN  <<Point(x, y)>>

\* the index pairs <<i, j>> the two loops of calculateVanishingPoint visit, in
\* order, for a group of k lines, from position <<i, j>> on
RECURSIVE pairsFrom(_, _, _)
pairsFrom(k, i, j) ==
    IF i >= k THEN <<>>
    ELSE IF j >= k THEN pairsFrom(k, i + 1, i + 2)
    ELSE <<<<i, j>>>> \o pairsFrom(k, i, j + 1)

\* faulty variant: only neighbouring lines of the group are paired
adjacentPairs(k) == [n \in 1..(IF k < 2 THEN 0 ELSE k - 1) |-> <<n - 1, n>>]

groupPairs(k) == pairsFrom(k, 0, 1)

\* the intersections slice: the non-nil intersections of the visited pairs
RECURSIVE collectIntersections(_, _, _)
collectIntersections(ls, g, ps) ==
    IF ps = <<>> THEN <<>>
    ELSE LET line1 == ls[g[ps[1][1] + 1] + 1]
             line2 == ls[g[ps[1][2] + 1] + 1]
             found == findIntersection(line1, line2)
             rest  == collectIntersections(ls, g, Tail(ps))
         IN  IF found # Nil THEN <<found[1]>> \o rest ELSE rest

\* the distance from point p to point c
distance(p, c) ==
    Sqrt(FAdd(FMul(FSub(p.X, c.X), FSub(p.X, c.X)),
              FMul(FSub(p.Y, c.Y), FSub(p.Y, c.Y))))

\* calculateVanishingPoint: the centroid of the intersections
centroidOf(ps) ==
    Point(meanOf([i \in 1..Len(ps) |-> ps[i].X]), meanOf([i \in 1..Len(ps) |-> ps[i].Y]))

\* calculateVanishingPoint: the average distance of the intersections from the centroid
convergenceErrorOf(ps, centroid) ==
    meanOf([i \in 1..Len(ps) |-> distance(ps[i], centroid)])

\* calculateVanishingPoint once the centroid is known
estimateAround(ps, centroid) == <<<<centroid>>, convergenceErrorOf(ps, centroid)>>

\* calculateVanishingPoint once the intersections are collected
estimateFrom(ps) ==
    IF Len(ps) = 0 THEN <<Nil, F(0)>> ELSE estimateAround(ps, centroidOf(ps))

\* calculateVanishingPoint finds the centroid of intersection points
calculateVanishingPoint(ls, g) ==
    IF Len(g) < 2 THEN <<Nil, F(0)>>
    ELSE estimateFrom(collectIntersections(ls, g, groupPairs(Len(g))))

\* calculatePerspectiveScore converts convergence errors to a score
calculatePerspectiveScore(errorL, errorR, width, height) ==
    LET avgError == FDiv(FAdd(errorL, errorR), F(2))
        diagonal == Sqrt(FAdd(FMul(width, width), FMul(height, height)))
        normalizedError == FDiv(avgError, diagonal)
        score == FMul(F(100), Exp(FMul(FNeg(normalizedError), F(10))))
    IN  IF FGt(score, F(100)) THEN F(100)
        ELSE IF FLt(score, F(0)) THEN F(0)
        ELSE score

\* generateVisualization: the PNG data URI, whose pixels are not modelled
generateVisualization(r, ls, vs, lg, rg, leftVP, rightVP) == "data:image/png;base64,"

\* faulty variant: the estimate is computed only for a group of more than 2 lines
estimateGroupOverTwo(ls, g) ==
    IF Len(g) > 2 THEN calculateVanishingPoint(ls, g) ELSE <<Nil, F(0)>>

\* analyzeStrokes step 3 for one side: the estimate is computed only for a
\* group of at least 2 lines, and is (nil, 0) otherwise
estimateGroup(ls, g) ==
    IF Len(g) >= 2 THEN calculateVanishingPoint(ls, g) ELSE <<Nil, F(0)>>

\* analyzeStrokes: the average of the line scores
averageScore(lineScores) == FDiv(FSum(lineScores), F(Len(lineScores)))

\* analyzeStrokes step 1: one fitted line per stroke, in input order
fitLines(strokes) == [i \in 1..Len(strokes) |-> calculateIdealLine(strokes[i])]

\* analyzeStrokes: the result record, from the scores and both estimates
assembleResult(lineScores, left, right, perspectiveScore, imageData) ==
    [ImageData         |-> imageData,
     LineScores        |-> lineScores,
     AverageLineScore  |-> averageScore(lineScores),
     LeftVP            |-> left[1],
     RightVP           |-> right[1],
     ConvergenceErrorL |-> left[2],
     ConvergenceErrorR |-> right[2],
     PerspectiveScore  |-> perspectiveScore]

\* analyzeStrokes steps 4-5, on both estimates
scoreEstimates(r, ls, c, left, right) ==
    assembleResult([i \in 1..Len(ls) |-> ls[i].Score], left, right,
        calculatePerspectiveScore(left[2], right[2], r.Width, r.Height),
        generateVisualization(r, ls, c.verticals, c.leftGroup, c.rightGroup,
                              left[1], right[1]))

\* analyzeStrokes step 3, on the clustered lines
analyzeClustered(r, ls, c) ==
    scoreEstimates(r, ls, c, estimateGroup(ls, c.leftGroup),
                   estimateGroup(ls, c.rightGroup))

\* analyzeStrokes step 2, on the fitted lines ls
analyzeLines(r, ls) == analyzeClustered(r, ls, clusterLines(ls))

analyzeStrokes(r) == analyzeLines(r, fitLines(r.Strokes))

-----------------------------------------------------------------------------
(* the inputs the model draws from *)

\* the stroke count handleAnalyze expects
NumStrokes == 9

\* points per generated stroke
PointsPerStroke == 3

\* longest list of arbitrary lines given to clusterLines
MaxLines == 2

\* largest list of lines given to calculateVanishingPoint
MaxGroup == 3

\* a straight stroke: the points p0 + t * d for t = 1..PointsPerStroke
rayStroke(p0, d) ==
    [t \in 1..PointsPerStroke |-> Point(F(p0[1] + t * d[1]), F(p0[2] + t * d[2]))]

vertStroke(x) == rayStroke(<<x, 0>>, <<0, 2>>)

\* the stroke with its second point moved down by dy
wobble(stroke, dy) == [stroke EXCEPT ![2].Y = FAdd(@, F(dy))]

\* directions of the strokes drawn towards the left point: level, gentle,
\* diagonal, steep (over 70 degrees), falling, and a short diagonal
LeftDirs == <<<<2, 0>>, <<2, 1>>, <<2, 2>>, <<2, 6>>, <<2, -2>>, <<1, 1>>>>

\* directions of the strokes drawn towards the right point: falling gently,
\* diagonally, steeply, over 70 degrees, level, and rising
RightDirs == <<<<-2, 1>>, <<-2, 2>>, <<-2, 4>>, <<-2, 6>>, <<-2, 0>>, <<-2, -2>>>>

\* three directions, as non-decreasing positions in a list of six
Triples == {t \in (1..6) \X (1..6) \X (1..6) : t[1] <= t[2] /\ t[2] <= t[3]}

\* the orders in which the nine strokes of a cube are drawn: grouped, interleaved
Layouts == {<<1, 2, 3, 4, 5, 6, 7, 8, 9>>, <<4, 1, 7, 5, 2, 8, 6, 3, 9>>}

LeftPoint == <<0, 10>>

RightPoint == <<40, 10>>

\* nine straight strokes: verticals at x = 10, 20, 30, three strokes on lines
\* through LeftPoint, three on lines through RightPoint, drawn in order lay
cubeStrokes(tl, tr, lay) ==
    LET base == << vertStroke(10), vertStroke(20), vertStroke(30),
                   rayStroke(LeftPoint, LeftDirs[tl[1]]),
                   rayStroke(LeftPoint, LeftDirs[tl[2]]),
                   rayStroke(LeftPoint, LeftDirs[tl[3]]),
                   rayStroke(RightPoint, RightDirs[tr[1]]),
                   rayStroke(RightPoint, RightDirs[tr[2]]),
                   rayStroke(RightPoint, RightDirs[tr[3]]) >>
    IN  [i \in 1..9 |-> base[lay[i]]]

Request(strokes, w, h) == [Strokes |-> strokes, Width |-> F(w), Height |-> F(h)]

Grouped == <<1, 2, 3, 4, 5, 6, 7, 8, 9>>

\* the triples kept fixed on one side while the other side varies: three
\* different slopes of the expected sign, and three lines of the other sign
FixedTriples == {<<1, 2, 3>>, <<6, 6, 6>>}

\* cubes on an 800 x 600 canvas: every triple of directions on one side
\* against the fixed triples on the other
CubeRequests ==
    {Request(cubeStrokes(t[1], t[2], lay), 800, 600) :
        t \in (Triples \X FixedTriples) \cup (FixedTriples \X Triples),
        lay \in Layouts}

\* a few cubes to vary: well drawn, with few lines on one side, with parallels
BaseCubes ==
    {cubeStrokes(tl, tr, Grouped) :
        tl \in {<<1, 2, 3>>, <<2, 4, 4>>, <<3, 3, 3>>},
        tr \in {<<1, 2, 3>>, <<2, 4, 4>>}}

\* cubes with one stroke replaced by a stroke of no point or of one point
DegenerateRequests ==
    {Request([c EXCEPT ![k] = d], w, w) :
        c \in BaseCubes, k \in 1..9, d \in {<<>>, <<Point(F(3), F(3))>>},
        w \in {100, 800}}

\* cubes with one stroke bent a little or a lot
WobblyRequests ==
    {Request([c EXCEPT ![k] = wobble(@, dy)], 800, 600) :
        c \in BaseCubes, k \in 1..9, dy \in {1, 3, 40}}

\* requests with other stroke counts: none, one short, one too many
MiscountRequests ==
    {Request(SubSeq(c \o <<vertStroke(35)>>, 1, n), 800, 600) :
        c \in BaseCubes, n \in {0, NumStrokes - 1, NumStrokes + 1}}

\* cubes sent without canvas dimensions: width and height decode as 0
ZeroCanvasRequests ==
    {Request(c, 0, 0) : c \in BaseCubes}
    \cup {Request([c EXCEPT ![4] = wobble(@, 3)], 0, 0) : c \in BaseCubes}

\* cubes with one converging stroke drawn far out along its line, its
\* coordinates so large that their squares are beyond MaxFloat64
FarRequests ==
    {Request([c EXCEPT ![k] = IF k <= 6
                              THEN rayStroke(LeftPoint, <<100000, 100000>>)
                              ELSE rayStroke(RightPoint, <<-100000, 100000>>)],
             800, 600) :
        c \in BaseCubes, k \in 4..9}

Requests ==
    CubeRequests \cup DegenerateRequests \cup WobblyRequests \cup MiscountRequests
    \cup ZeroCanvasRequests \cup FarRequests

\* what arrives at the handler: method, whether the body decodes, the decoded body
HttpRequests ==
    {<<"POST", TRUE, r>> : r \in Requests}
    \cup {<<m[1], m[2], r>> :
            m \in {<<"GET", TRUE>>, <<"PUT", TRUE>>, <<"POST", FALSE>>},
            r \in MiscountRequests \cup {Request(c, 800, 600) : c \in BaseCubes}}

NoRequest == Request(<<>>, 0, 0)

-----------------------------------------------------------------------------
(* the HTTP handler *)

\* faulty variant: at least 9 strokes are accepted
validStrokeCountAtLeast(r) == Len(r.Strokes) >= 9

\* handleAnalyze's check of the stroke count
validStrokeCount(r) == Len(r.Strokes) = 9

Blank ==
    /\ status = 0 /\ message = "" /\ result = Nil /\ coreCalls = 0
    /\ verticals = <<>> /\ leftGroup = <<>> /\ rightGroup = <<>>
    /\ pairs = <<>> /\ vp = <<Nil, F(0)>> /\ intersection = Nil

\* a request has arrived
Init ==
    /\ \E h \in HttpRequests : method = h[1] /\ decodeOk = h[2] /\ req = h[3]
    /\ lines = <<>> /\ group = <<>>
    /\ Blank /\ pc = "input"

\* the locals of analyzeStrokes after a call on r, from the clustering on
coreClustered(r, ls, c) ==
    /\ coreCalls' = coreCalls + 1
    /\ result' = <<analyzeClustered(r, ls, c)>>
    /\ lines' = ls
    /\ verticals' = c.verticals
    /\ leftGroup' = c.leftGroup
    /\ rightGroup' = c.rightGroup

coreFitted(r, ls) == coreClustered(r, ls, clusterLines(ls))

\* the locals of analyzeStrokes after a call on r
coreRan(r) == coreFitted(r, fitLines(r.Strokes))

\* handleAnalyze: one request, from arrival to the response
handleAnalyze ==
    /\ pc = "input"
    /\ pc' = "done"
    /\ IF method # "POST"
       THEN /\ status' = 405 /\ message' = "Method not allowed"
            /\ UNCHANGED <<result, coreCalls, lines, verticals, leftGroup, rightGroup>>
       ELSE IF ~decodeOk
       THEN /\ status' = 400 /\ message' = "Invalid request"
            /\ UNCHANGED <<result, coreCalls, lines, verticals, leftGroup, rightGroup>>
       ELSE IF ~validStrokeCount(req)
       THEN /\ status' = 400 /\ message' = "Expected exactly 9 strokes"
            /\ UNCHANGED <<result, coreCalls, lines, verticals, leftGroup, rightGroup>>
       ELSE /\ status' = 200 /\ message' = ""
            /\ coreRan(req)
    /\ UNCHANGED <<req, method, decodeOk, group, pairs, vp, intersection>>

Next == handleAnalyze

Spec == Init /\ [][Next]_vars

-----------------------------------------------------------------------------
(* analyzeStrokes called on its own *)

InitCore ==
    /\ req \in DegenerateRequests \cup WobblyRequests \cup MiscountRequests
    /\ method = "" /\ decodeOk = TRUE
    /\ lines = <<>> /\ group = <<>>
    /\ Blank /\ pc = "input"

callAnalyzeStrokes ==
    /\ pc = "input"
    /\ pc' = "done"
    /\ coreRan(req)
    /\ UNCHANGED <<req, method, decodeOk, status, message, group, pairs, vp, intersection>>

NextCore == callAnalyzeStrokes

SpecCore == InitCore /\ [][NextCore]_vars

-----------------------------------------------------------------------------
(* clusterLines called on its own *)

\* angles on, next to and away from the boundaries of the vertical band
ClusterAngles ==
    {F(0), F(45), F(70), Rat(141, 2), F(71), F(80), F(90), F(109), F(110), F(111),
     F(-45), F(-70), F(-71), F(-90), F(-110)}

\* lines of every such angle, the other fields unrelated to it
LineSamples ==
    {Line(m, F(0), a, F(0), F(100)) : m \in {F(-1), MaxFloat64}, a \in ClusterAngles}

\* the lines of a drawn cube: a vertical, a rising and a falling one
CubeLines == {Line(F(0), F(0), a, F(0), F(100)) : a \in {F(80), F(45), F(-45)}}

ClusterInputs ==
    UNION {[1..n -> LineSamples] : n \in 0..MaxLines} \cup [1..NumStrokes -> CubeLines]

InitCluster ==
    /\ lines \in ClusterInputs
    /\ req = NoRequest /\ method = "" /\ decodeOk = FALSE /\ group = <<>>
    /\ Blank /\ pc = "input"

clustered(c) ==
    /\ verticals' = c.verticals
    /\ leftGroup' = c.leftGroup
    /\ rightGroup' = c.rightGroup

callClusterLines ==
    /\ pc = "input"
    /\ pc' = "done"
    /\ clustered(clusterLines(lines))
    /\ UNCHANGED <<req, method, decodeOk, status, result, coreCalls, lines, group,
                   pairs, vp, intersection, message>>

NextCluster == callClusterLines

SpecCluster == InitCluster /\ [][NextCluster]_vars

-----------------------------------------------------------------------------
(* findIntersection called on its own *)

\* the line y = m*x + b as calculateIdealLine returns it for a straight stroke
obliqueSample(m, b) == Line(m, b, AtanDegrees(m), F(0), F(100))

\* the vertical line at x as calculateIdealLine returns it for a straight stroke
verticalSample(x) == Line(MaxFloat64, x, F(90), F(0), F(100))

\* slopes far apart, 0.0005 apart and exactly 0.001 apart
IntersectSlopes == {F(0), Rat(1, 2), F(1), Rat(2001, 2000), Rat(1001, 1000), F(-1), F(3)}

IntersectLines ==
    {obliqueSample(m, b) : m \in IntersectSlopes, b \in {F(0), F(5), F(-3)}}
    \cup {verticalSample(x) : x \in {F(0), F(5), F(7)}}

InitIntersect ==
    /\ lines \in IntersectLines \X IntersectLines
    /\ req = NoRequest /\ method = "" /\ decodeOk = FALSE /\ group = <<>>
    /\ Blank /\ pc = "input"

callFindIntersection ==
    /\ pc = "input"
    /\ pc' = "done"
    /\ intersection' = findIntersection(lines[1], lines[2])
    /\ UNCHANGED <<req, method, decodeOk, status, result, coreCalls, lines, verticals,
                   leftGroup, rightGroup, group, pairs, vp, message>>

NextIntersect == callFindIntersection

SpecIntersect == InitIntersect /\ [][NextIntersect]_vars

-----------------------------------------------------------------------------
(* calculateVanishingPoint called on its own *)

\* four lines through the point (4, 6), a parallel of one of them, and a line
\* that misses the point
VPLines ==
    {obliqueSample(F(0), F(6)), obliqueSample(F(1), F(2)),
     obliqueSample(Rat(-1, 2), F(8)), verticalSample(F(4)),
     obliqueSample(F(1), F(0)), obliqueSample(F(2), F(-5))}

\* the increasing lists of indices below n, as clusterLines builds its groups
RECURSIVE IndexLists(_)
IndexLists(n) ==
    IF n = 0 THEN {<<>>}
    ELSE IndexLists(n - 1) \cup {Append(g, n - 1) : g \in IndexLists(n - 1)}

InitVP ==
    /\ \E n \in 0..MaxGroup : lines \in [1..n -> VPLines] /\ group \in IndexLists(n)
    /\ req = NoRequest /\ method = "" /\ decodeOk = FALSE
    /\ Blank /\ pc = "input"

callCalculateVanishingPoint ==
    /\ pc = "input"
    /\ pc' = "done"
    /\ pairs' = IF Len(group) < 2 THEN <<>> ELSE groupPairs(Len(group))
    /\ vp' = calculateVanishingPoint(lines, group)
    /\ UNCHANGED <<req, method, decodeOk, status, result, coreCalls, lines, verticals,
                   leftGroup, rightGroup, group, intersection, message>>

NextVP == callCalculateVanishingPoint

SpecVP == InitVP /\ [][NextVP]_vars

-----------------------------------------------------------------------------
(* properties *)

\* the set of the elements of a sequence
Elems(q) == {q[i] : i \in DOMAIN q}

NoRepeat(q) == \A i, j \in DOMAIN q : i # j => q[i] # q[j]

\* comparisons of finite fractions, by cross multiplication
Finite(a) == a[2] > 0

QLe(a, b) == Finite(a) /\ Finite(b) /\ a[1] * b[2] <= b[1] * a[2]

QLt(a, b) == Finite(a) /\ Finite(b) /\ a[1] * b[2] < b[1] * a[2]

\* C1: clusterLines returns three index lists that are pairwise disjoint, hold
\* no index twice, and together hold exactly the indices 0..len(lines)-1
C1_Partition ==
    pc = "done" =>
        /\ NoRepeat(verticals) /\ NoRepeat(leftGroup) /\ NoRepeat(rightGroup)
        /\ Elems(verticals) \cap Elems(leftGroup) = {}
        /\ Elems(verticals) \cap Elems(rightGroup) = {}
        /\ Elems(leftGroup) \cap Elems(rightGroup) = {}
        /\ Elems(verticals) \cup Elems(leftGroup) \cup Elems(rightGroup)
               = 0..(Len(lines) - 1)

C1_Witness ==
    /\ pc = "done" /\ Len(lines) = NumStrokes
    /\ Len(verticals) = 3 /\ Len(leftGroup) = 3 /\ Len(rightGroup) = 3

\* the group an angle belongs to by the rule of C2
GroupOfAngle(a) ==
    IF QLt(F(70), FAbs(a)) /\ QLt(FAbs(a), F(110)) THEN "Vertical"
    ELSE IF QLt(a, F(0)) THEN "RightConverging"
    ELSE "LeftConverging"

\* C2: a line is Vertical exactly when 70 < |Angle| < 110, otherwise
\* RightConverging when Angle < 0 and LeftConverging when Angle >= 0, whatever
\* its other fields; 80 is Vertical, 45 Left, -45 Right, 70 Left and -70 Right
C2_ByAngle ==
    pc = "done" =>
        \A i \in 0..(Len(lines) - 1) :
            LET a == lines[i + 1].Angle
            IN  /\ i \in Elems(verticals) <=> GroupOfAngle(a) = "Vertical"
                /\ i \in Elems(rightGroup) <=> GroupOfAngle(a) = "RightConverging"
                /\ i \in Elems(leftGroup) <=> GroupOfAngle(a) = "LeftConverging"
                /\ a = F(80) => i \in Elems(verticals)
                /\ a \in {F(45), F(70)} => i \in Elems(leftGroup)
                /\ a \in {F(-45), F(-70)} => i \in Elems(rightGroup)

C2_Witness ==
    /\ pc = "done" /\ Len(lines) = 2
    /\ lines[1].Angle = F(70) /\ leftGroup = <<0>>
    /\ lines[2].Angle = F(-70) /\ rightGroup = <<1>>
    /\ lines[1].M = MaxFloat64

IsVerticalLine(l) == l.M = MaxFloat64

\* the point p lies on the line l
OnLine(p, l) ==
    IF IsVerticalLine(l) THEN p.X = l.B
    ELSE p.Y = FAdd(FMul(l.M, p.X), l.B)

\* the slopes of two non-vertical lines differ by less than 0.001
SlopesWithinTolerance(l1, l2) ==
    LET d == FSub(l1.M, l2.M)
    IN  IAbs(d[1]) * 1000 < d[2]

\* C9: findIntersection returns no point for two verticals; for one vertical
\* the point at the vertical's stored x on the other line; no point for two
\* non-vertical lines whose slopes differ by less than 0.001, equal or not;
\* otherwise the point x = (b2 - b1)/(m1 - m2), y = m1*x + b1, which lies on
\* both lines; and whether a point is returned does not depend on the order
C9_Cases ==
    pc = "done" =>
        LET l1 == lines[1]
            l2 == lines[2]
        IN  /\ IsVerticalLine(l1) /\ IsVerticalLine(l2) => intersection = Nil
            /\ IsVerticalLine(l1) /\ ~IsVerticalLine(l2) =>
                   intersection = <<Point(l1.B, FAdd(FMul(l2.M, l1.B), l2.B))>>
            /\ ~IsVerticalLine(l1) /\ IsVerticalLine(l2) =>
                   intersection = <<Point(l2.B, FAdd(FMul(l1.M, l2.B), l1.B))>>
            /\ ~IsVerticalLine(l1) /\ ~IsVerticalLine(l2) /\ SlopesWithinTolerance(l1, l2)
                   => intersection = Nil
            /\ ~IsVerticalLine(l1) /\ ~IsVerticalLine(l2) /\ ~SlopesWithinTolerance(l1, l2)
                   => /\ intersection # Nil
                      /\ FMul(intersection[1].X, FSub(l1.M, l2.M)) = FSub(l2.B, l1.B)
                      /\ intersection[1].Y = FAdd(FMul(l1.M, intersection[1].X), l1.B)
            /\ intersection # Nil => OnLine(intersection[1], l1) /\ OnLine(intersection[1], l2)
            /\ (intersection = Nil) <=> (findIntersection(l2, l1) = Nil)

\* two slopes 0.0005 apart: no point although the lines do meet
C9_Witness ==
    /\ pc = "done"
    /\ lines[1].M = F(1) /\ lines[2].M = Rat(2001, 2000)
    /\ lines[1].B # lines[2].B
    /\ intersection = Nil

\* the sum of f over the finite set S
RECURSIVE SumOver(_, _)
SumOver(S, f) ==
    IF S = {} THEN F(0)
    ELSE LET x == CHOOSE y \in S : TRUE
         IN  FAdd(f[x], SumOver(S \ {x}, f))

\* the line at position n (from 0) of the group
GroupLine(n) == lines[group[n + 1] + 1]

\* the position pairs i < j of the group whose lines findIntersection gives a point for
MeetingPairs ==
    {p \in (0..(Len(group) - 1)) \X (0..(Len(group) - 1)) :
        p[1] < p[2] /\ findIntersection(GroupLine(p[1]), GroupLine(p[2])) # Nil}

Meet(p) == findIntersection(GroupLine(p[1]), GroupLine(p[2]))[1]

\* no two lines of the group are parallel for findIntersection
PairwiseCrossing ==
    \A i, j \in 0..(Len(group) - 1) :
        i < j => /\ ~(IsVerticalLine(GroupLine(i)) /\ IsVerticalLine(GroupLine(j)))
                 /\ IsVerticalLine(GroupLine(i)) \/ IsVerticalLine(GroupLine(j))
                        \/ ~SlopesWithinTolerance(GroupLine(i), GroupLine(j))

\* points with whole coordinates from 0 to 8
GridPoints == {Point(F(x), F(y)) : x \in 0..8, y \in 0..8}

\* C10: calculateVanishingPoint visits every unordered pair of the group once
\* (C(k,2) pairs <<i, j>> with i < j, none twice, no line with itself); the
\* centroid is the mean of the non-absent intersections and the convergence
\* error their mean distance to it; three pairwise non-parallel lines through
\* one point P give centroid P and convergence error 0
C10_Pairs ==
    pc = "done" =>
        LET k == Len(group)
            n == Cardinality(MeetingPairs)
        IN  /\ Len(pairs) = (k * (k - 1)) \div 2
            /\ NoRepeat(pairs)
            /\ \A i \in DOMAIN pairs :
                   0 <= pairs[i][1] /\ pairs[i][1] < pairs[i][2] /\ pairs[i][2] < k
            /\ n = 0 => vp = <<Nil, F(0)>>
            /\ n > 0 =>
                   /\ vp[1] # Nil
                   /\ vp[1][1].X = FDiv(SumOver(MeetingPairs,
                                          [p \in MeetingPairs |-> Meet(p).X]), F(n))
                   /\ vp[1][1].Y = FDiv(SumOver(MeetingPairs,
                                          [p \in MeetingPairs |-> Meet(p).Y]), F(n))
                   /\ vp[2] = FDiv(SumOver(MeetingPairs,
                                     [p \in MeetingPairs |->
                                        LET dx == FSub(Meet(p).X, vp[1][1].X)
                                            dy == FSub(Meet(p).Y, vp[1][1].Y)
                                        IN  Sqrt(FAdd(FMul(dx, dx), FMul(dy, dy)))]), F(n))
            /\ \A P \in GridPoints :
                   (k = 3 /\ PairwiseCrossing /\ \A i \in 0..2 : OnLine(P, GroupLine(i)))
                       => vp = <<<<P>>, F(0)>>

\* three different lines through (4, 6), one of them vertical
C10_Witness ==
    /\ pc = "done" /\ Len(group) = 3 /\ PairwiseCrossing
    /\ \A i \in 0..2 : OnLine(Point(F(4), F(6)), GroupLine(i))
    /\ \E i \in 0..2 : IsVerticalLine(GroupLine(i))
    /\ Len(pairs) = 3
    /\ vp = <<<<Point(F(4), F(6))>>, F(0)>>

\* the AnalysisResult of the response
Res == result[1]

CubeL == Point(F(LeftPoint[1]), F(LeftPoint[2]))

CubeR == Point(F(RightPoint[1]), F(RightPoint[2]))

\* a stroke of two or more points, all with the same x
StraightVertical(st) == Len(st) >= 2 /\ \A i \in DOMAIN st : st[i].X = st[1].X

\* a stroke of two or more points on one non-vertical line through the point p
StraightThrough(st, p) ==
    /\ Len(st) >= 2 /\ st[1].X # p.X /\ st[1] # st[Len(st)]
    /\ \A i \in DOMAIN st :
           FMul(FSub(st[i].X, p.X), FSub(st[1].Y, p.Y))
               = FMul(FSub(st[i].Y, p.Y), FSub(st[1].X, p.X))

\* the slope of the line through p that the stroke lies on
SlopeThrough(st, p) == FDiv(FSub(st[1].Y, p.Y), FSub(st[1].X, p.X))

\* the variance of the x-coordinates of a stroke: the mean square less the squared mean
XVariance(st) ==
    LET n  == Len(st)
        sx == SumOver(DOMAIN st, [i \in DOMAIN st |-> st[i].X])
        sq == SumOver(DOMAIN st, [i \in DOMAIN st |-> FMul(st[i].X, st[i].X)])
    IN  FSub(FDiv(sq, F(n)), FMul(FDiv(sx, F(n)), FDiv(sx, F(n))))

\* the positions of the verticals, of the strokes through the left point and
\* of the strokes through the right point, in a request drawn in order lay
VerticalAt(lay) == {i \in 1..9 : lay[i] \in 1..3}

LeftAt(lay) == {i \in 1..9 : lay[i] \in 4..6}

RightAt(lay) == {i \in 1..9 : lay[i] \in 7..9}

\* nine straight strokes: three exact verticals at different x, three lines
\* through CubeL and three lines through CubeR
PerfectCube(lay) ==
    /\ Len(req.Strokes) = 9
    /\ \A i \in VerticalAt(lay) : StraightVertical(req.Strokes[i])
    /\ \A i, j \in VerticalAt(lay) :
           i # j => req.Strokes[i][1].X # req.Strokes[j][1].X
    /\ \A i \in LeftAt(lay) : StraightThrough(req.Strokes[i], CubeL)
    /\ \A i \in RightAt(lay) : StraightThrough(req.Strokes[i], CubeR)

PerfectOutcome ==
    /\ Res.AverageLineScore = F(100)
    /\ Res.LeftVP = <<CubeL>> /\ Res.RightVP = <<CubeR>>
    /\ Res.ConvergenceErrorL = F(0) /\ Res.ConvergenceErrorR = F(0)
    /\ Res.PerspectiveScore = F(100)

\* C3 as stated: every perfect cube, whatever the slopes of its six converging
\* lines, is answered with average line score 100, the two points as vanishing
\* points, convergence errors 0 and perspective score 100
C3_AnySlopes ==
    \A lay \in Layouts : (status = 200 /\ PerfectCube(lay)) => PerfectOutcome

\* tan(70 degrees), to four places
Tan70 == Rat(27474, 10000)

\* two of the strokes at positions I lie on lines through p whose slopes
\* differ by at least 0.001
TwoSlopesApart(I, p) ==
    \E i, j \in I :
        LET d == FSub(SlopeThrough(req.Strokes[i], p), SlopeThrough(req.Strokes[j], p))
        IN  IAbs(d[1]) * 1000 >= d[2]

\* what the code needs of a perfect cube: a canvas of positive size, every
\* converging stroke spread over x with variance at least 1, the lines through
\* the left point level or rising by at most 70 degrees, the lines through
\* the right point falling by at most 70 degrees, and on each side two slopes
\* at least 0.001 apart
CubeAsClustered(lay) ==
    /\ QLt(F(0), req.Width) /\ QLt(F(0), req.Height)
    /\ \A i \in LeftAt(lay) :
           /\ QLe(F(1), XVariance(req.Strokes[i]))
           /\ QLe(F(0), SlopeThrough(req.Strokes[i], CubeL))
           /\ QLe(SlopeThrough(req.Strokes[i], CubeL), Tan70)
    /\ \A i \in RightAt(lay) :
           /\ QLe(F(1), XVariance(req.Strokes[i]))
           /\ QLt(SlopeThrough(req.Strokes[i], CubeR), F(0))
           /\ QLe(FNeg(Tan70), SlopeThrough(req.Strokes[i], CubeR))
    /\ TwoSlopesApart(LeftAt(lay), CubeL)
    /\ TwoSlopesApart(RightAt(lay), CubeR)

\* C3 amended: a perfect cube is answered with average line score 100, the two
\* points as vanishing points, convergence errors 0 and perspective score 100
\* when the canvas has positive size, the lines through L have slopes in
\* [0, tan 70], the lines through R have slopes in [-tan 70, 0), every
\* converging stroke has x-variance at least 1 and each side has two slopes
\* at least 0.001 apart
C3_ClusteredSlopes ==
    \A lay \in Layouts :
        (status = 200 /\ PerfectCube(lay) /\ CubeAsClustered(lay)) => PerfectOutcome

\* a perfect cube drawn in the interleaved order, with a level line on the left
C3_Witness ==
    /\ status = 200
    /\ PerfectCube(<<4, 1, 7, 5, 2, 8, 6, 3, 9>>)
    /\ CubeAsClustered(<<4, 1, 7, 5, 2, 8, 6, 3, 9>>)
    /\ \E i \in 1..9 : SlopeThrough(req.Strokes[i], CubeL) = F(0)
    /\ PerfectOutcome

\* C4: analyzeStrokes runs only for a POST request whose decoded body holds
\* exactly 9 strokes; a decoded POST body with any other stroke count is
\* answered 400 without a call of analyzeStrokes; every result returned has 9
\* line scores, the i-th the score of the line fitted to the i-th stroke
C4_NineOrRejected ==
    /\ coreCalls > 0 => method = "POST" /\ decodeOk /\ Len(req.Strokes) = 9
    /\ (pc = "done" /\ method = "POST" /\ decodeOk /\ Len(req.Strokes) # 9) =>
           /\ status = 400 /\ message = "Expected exactly 9 strokes"
           /\ coreCalls = 0 /\ result = Nil
    /\ result # Nil =>
           /\ status = 200 /\ coreCalls = 1
           /\ Len(Res.LineScores) = 9
           /\ \A i \in 1..9 : Res.LineScores[i] = calculateIdealLine(req.Strokes[i]).Score

\* a POST request of 10 strokes, rejected
C4_Witness ==
    /\ pc = "done" /\ method = "POST" /\ decodeOk
    /\ Len(req.Strokes) = NumStrokes + 1
    /\ status = 400 /\ coreCalls = 0 /\ result = Nil

\* C5: analyzeStrokes called with a stroke count other than 9 reports a
\* validation error and returns no analysis result
C5_CoreValidates ==
    (pc = "done" /\ Len(req.Strokes) # 9) => (result = Nil /\ message # "")

\* the sequence q without its k-th element
RemoveAt(q, k) == [i \in 1..(Len(q) - 1) |-> IF i < k THEN q[i] ELSE q[i + 1]]

\* a group without the index k0, the larger indices moved down by one
GroupWithout(g, k0) ==
    LET kept == SelectSeq(g, LAMBDA i : i # k0)
    IN  [n \in DOMAIN kept |-> IF kept[n] > k0 THEN kept[n] - 1 ELSE kept[n]]

\* the positions of the strokes of fewer than 2 points
Degenerate == {k \in DOMAIN req.Strokes : Len(req.Strokes[k]) < 2}

\* C6: with exactly one stroke of fewer than 2 points, its line is the zero
\* line with score 0, the other eight lines are the fits of their strokes, the
\* left and right groups hold the same lines among those eight, and both
\* vanishing points and convergence errors are those of the eight lines alone
C6_DegenerateIsolated ==
    (status = 200 /\ Cardinality(Degenerate) = 1) =>
        LET k      == CHOOSE d \in Degenerate : TRUE
            eight  == RemoveAt(lines, k)
            c      == clusterLines(eight)
        IN  /\ lines[k] = ZeroLine /\ Res.LineScores[k] = F(0)
            /\ \A i \in 1..9 :
                   i # k => /\ lines[i] = calculateIdealLine(req.Strokes[i])
                            /\ Res.LineScores[i] = lines[i].Score
            /\ GroupWithout(leftGroup, k - 1) = c.leftGroup
            /\ GroupWithout(rightGroup, k - 1) = c.rightGroup
            /\ <<Res.LeftVP, Res.ConvergenceErrorL>> = estimateGroup(eight, c.leftGroup)
            /\ <<Res.RightVP, Res.ConvergenceErrorR>> = estimateGroup(eight, c.rightGroup)

\* a score is a finite number from 0 to 100
IsScore(a) == Finite(a) /\ 0 <= a[1] /\ a[1] <= 100 * a[2]

\* C7: for 9 strokes, degenerate ones included, and positive width and height,
\* every line score, the average line score and the perspective score are
\* within [0, 100]
C7_ScoresInRange ==
    (status = 200 /\ QLt(F(0), req.Width) /\ QLt(F(0), req.Height)) =>
        /\ \A i \in DOMAIN Res.LineScores : IsScore(Res.LineScores[i])
        /\ IsScore(Res.AverageLineScore)
        /\ IsScore(Res.PerspectiveScore)

\* findIntersection reports every pair of lines of the group g parallel
AllParallel(g) ==
    \A i, j \in DOMAIN g :
        i < j => findIntersection(lines[g[i] + 1], lines[g[j] + 1]) = Nil

\* C8: a side's vanishing point is absent exactly when its group has fewer
\* than 2 lines or findIntersection reports every pair of its lines parallel,
\* and an absent vanishing point comes with convergence error 0
C8_AbsentVP ==
    status = 200 =>
        /\ Res.LeftVP = Nil <=> (Len(leftGroup) < 2 \/ AllParallel(leftGroup))
        /\ Res.RightVP = Nil <=> (Len(rightGroup) < 2 \/ AllParallel(rightGroup))
        /\ Res.LeftVP = Nil => Res.ConvergenceErrorL = F(0)
        /\ Res.RightVP = Nil => Res.ConvergenceErrorR = F(0)

\* a left group of three parallel lines and a right group of one line
C8_Witness ==
    /\ status = 200
    /\ Len(leftGroup) >= 3 /\ AllParallel(leftGroup) /\ Res.LeftVP = Nil
    /\ Len(rightGroup) = 1 /\ Res.RightVP = Nil
    /\ Res.ConvergenceErrorL = F(0) /\ Res.ConvergenceErrorR = F(0)

=============================================================================
